---- MODULE Spec2Model ----
(***************************************************************************)
(* Model of secure-ftp-api.js: an HTTP relay that stages a file locally    *)
(* and pushes it to / pulls it from a remote FTP endpoint.                 *)
(*                                                                         *)
(* Text values whose characters the code inspects (fileName, path,         *)
(* urlFile, base64File) are sequences of one-character strings.  Error     *)
(* messages are sequences of words, and String.includes on a message is a  *)
(* search for a contiguous run of words.  File contents are sequences of   *)
(* byte values.  Requests are served one after another; the staging        *)
(* directories and the remote tree persist between requests.               *)
(***************************************************************************)
EXTENDS Integers, Sequences, FiniteSets, TLC

(* ------------------------------ bounds --------------------------------- *)
\* number of requests served in one behaviour
MaxRequests == 2
\* number of requests in flight side by side
MaxInFlight == 2
\* number of uuidv4() calls in one behaviour
MaxUuids == 2

(* ------------------------- string primitives --------------------------- *)
\* String.prototype.includes / Array.prototype.includes on sequences
Includes(s, sub) ==
    \E i \in 1..(Len(s) - Len(sub) + 1) : SubSeq(s, i, i + Len(sub) - 1) = sub

\* String.prototype.indexOf, 1-based, 0 when absent
IndexOf(s, sub) ==
    IF Includes(s, sub)
    THEN CHOOSE i \in 1..(Len(s) - Len(sub) + 1) :
            /\ SubSeq(s, i, i + Len(sub) - 1) = sub
            /\ \A j \in 1..(i - 1) : SubSeq(s, j, j + Len(sub) - 1) # sub
    ELSE 0

\* s.split(sep): the sequence of parts
RECURSIVE Split(_, _)
Split(s, sep) ==
    IF ~Includes(s, sep) THEN <<s>>
    ELSE LET i == IndexOf(s, sep)
         IN  <<SubSeq(s, 1, i - 1)>> \o Split(SubSeq(s, i + Len(sep), Len(s)), sep)

\* s.replace(pat, ""): removes the first occurrence only
RemoveFirst(s, pat) ==
    IF ~Includes(s, pat) THEN s
    ELSE LET i == IndexOf(s, pat)
         IN  SubSeq(s, 1, i - 1) \o SubSeq(s, i + Len(pat), Len(s))

\* Array.prototype.filter(Boolean) on a sequence of strings
RECURSIVE FilterNonEmpty(_)
FilterNonEmpty(parts) ==
    IF parts = <<>> THEN <<>>
    ELSE IF Head(parts) = <<>> THEN FilterNonEmpty(Tail(parts))
         ELSE <<Head(parts)>> \o FilterNonEmpty(Tail(parts))

\* JavaScript truthiness of a string: non-empty
Truthy(s) == s # <<>>

(* ------------------------------ base64 --------------------------------- *)
B64Alphabet ==
    << "A","B","C","D","E","F","G","H","I","J","K","L","M","N","O","P",
       "Q","R","S","T","U","V","W","X","Y","Z","a","b","c","d","e","f",
       "g","h","i","j","k","l","m","n","o","p","q","r","s","t","u","v",
       "w","x","y","z","0","1","2","3","4","5","6","7","8","9","+","/" >>

IsB64Char(c) == \E i \in 1..64 : B64Alphabet[i] = c

B64Value(c) == (CHOOSE i \in 1..64 : B64Alphabet[i] = c) - 1

\* the decoder reads up to the first '=' and skips characters outside the alphabet
RECURSIVE B64Sextets(_)
B64Sextets(s) ==
    IF s = <<>> \/ Head(s) = "=" THEN <<>>
    ELSE IF IsB64Char(Head(s)) THEN <<B64Value(Head(s))>> \o B64Sextets(Tail(s))
         ELSE B64Sextets(Tail(s))

RECURSIVE B64Bytes(_)
B64Bytes(v) ==
    IF Len(v) < 2 THEN <<>>
    ELSE IF Len(v) = 2 THEN << v[1] * 4 + (v[2] \div 16) >>
    ELSE IF Len(v) = 3 THEN << v[1] * 4 + (v[2] \div 16),
                               (v[2] % 16) * 16 + (v[3] \div 4) >>
    ELSE << v[1] * 4 + (v[2] \div 16),
            (v[2] % 16) * 16 + (v[3] \div 4),
            (v[3] % 4) * 64 + v[4] >> \o B64Bytes(SubSeq(v, 5, Len(v)))

\* Buffer.from(text, 'base64')
BufferFromBase64(s) == B64Bytes(B64Sextets(s))

(* ----------------------------- text values ----------------------------- *)
SemiBase64Comma == << ";","b","a","s","e","6","4","," >>
DataColon == << "d","a","t","a",":" >>
\* '<html>' and '<!DOCTYPE html>' as UTF-8 bytes
HtmlTag == << 60,104,116,109,108,62 >>
DoctypeTag == << 60,33,68,79,67,84,89,80,69,32,104,116,109,108,62 >>

\* request inputs
NoText == << >>
FileNames == { NoText, <<"f">>, <<"a","/","f">>, <<"a","\\","f">> }
Paths == { NoText, <<"/","a">>, <<"b">> }
Urls == { NoText, <<"h">>, <<"h",":","/","/","h">> }
\* "data:text/plain;base64,SGVsbG8=" (Hello)
DataUriHello ==
    << "d","a","t","a",":","t","e","x","t","/","p","l","a","i","n",
       ";","b","a","s","e","6","4",",","S","G","V","s","b","G","8","=" >>
\* "SGVsbG8=" (Hello)
PlainHello == << "S","G","V","s","b","G","8","=" >>
\* "t/p;base64,SGVsbG8=": the marker without a leading "data:"
MarkerOnlyHello ==
    << "t","/","p",";","b","a","s","e","6","4",",","S","G","V","s","b","G","8","=" >>
\* "!!!!" (nothing decodable), "PGh0bWw+" (<html>)
Base64Inputs ==
    { NoText,
      <<"!","!","!","!">>,
      PlainHello,
      <<"P","G","h","0","b","W","w","+">>,
      DataUriHello,
      MarkerOnlyHello }
\* the (urlFile, base64File) pairs of a body: each alone, neither, and each
\* urlFile together with one base64File
UploadSources ==
    { s \in Urls \X Base64Inputs : s[1] = NoText \/ s[2] \in { NoText, PlainHello } }
\* bodies a URL fetch may deliver
FetchBodies == { <<7,8,9>>, HtmlTag }
\* content of a multipart upload
MultipartBodies == { <<5,6>> }
OriginalName == <<"o">>

(* --------------------------- error messages ---------------------------- *)
\* messages as word sequences (accents dropped: "nao", "pagina")
MsgStatusCode == <<"Request","failed","with","status","code","404">>
MsgENOTFOUND == <<"getaddrinfo","ENOTFOUND","host">>
MsgETIMEDOUT == <<"connect","ETIMEDOUT">>
MsgECONNREFUSED == <<"connect","ECONNREFUSED">>
MsgTypeError == <<"Cannot","read","properties","of","undefined">>
MsgWriteError == <<"ENOSPC","no","space","left","on","device","write">>
MsgUnlinkError == <<"EPERM","operation","not","permitted","unlink">>
MsgLogin == <<"530","Login","incorrect">>
MsgMkdir == <<"550","Permission","denied">>
MsgStor == <<"553","Could","not","create","file">>
MsgRetr == <<"426","Connection","closed","transfer","aborted">>
MsgDirNotFound == <<"Diretorio","nao","encontrado",":","path">>
MsgFileNotFound == <<"Arquivo","nao","encontrado",":","name">>
NoMsg == << >>

\* failures of the external calls
AxiosErrors == { MsgStatusCode, MsgENOTFOUND, MsgETIMEDOUT, MsgECONNREFUSED }
AccessErrors == { MsgENOTFOUND, MsgETIMEDOUT, MsgLogin }

(* ------------------------------- state --------------------------------- *)
VARIABLES
    pc,            \* position of the request handler
    req,           \* the request being served
    served,        \* number of requests received so far
    tempFilePath,  \* staging path of the request (NoPath before allocation)
    disk,          \* local files: staging path -> content
    fileInfo,      \* fileInfo of app.post('/api/upload')
    session,       \* ftp.Client of the request: "none", "open", "closed"
    cwd,           \* working directory of the open session
    dirIdx,        \* position of the ensureDir loop
    remoteDirs,    \* directories of the remote tree (sequences of segments)
    remoteFiles,   \* files of the remote tree: path -> content
    response,      \* the HTTP response of the request
    fetches,       \* axios calls made by the request
    accessCalls,   \* client.access calls made by the request
    stagingWrites, \* write calls on the request's staging path
    fetched,       \* body delivered by a completed URL fetch (NoFetch before)
    ftpResult,     \* outcome of uploadToFtp / downloadFromFtp: "none", "ok", "error"
    ftpType,       \* process.env.FTP_TYPE
    access,        \* options of the request's client.access call
    unlinks,       \* fs.unlinkSync calls on the request's staging path
    transfers,     \* client.uploadFrom / client.downloadTo calls of the request
    roundTrip,     \* last base64 upload answered 200, until the next remote write
    tasks,         \* requests in flight side by side: slot -> handler state
    uuids          \* number of uuidv4() calls made so far

vars == << pc, req, served, tempFilePath, disk, fileInfo, session, cwd, dirIdx,
           remoteDirs, remoteFiles, response, fetches, accessCalls, stagingWrites,
           fetched, ftpResult, ftpType, access, unlinks, transfers, roundTrip,
           tasks, uuids >>

ftpVars == << session, cwd, dirIdx, remoteDirs, remoteFiles, accessCalls, access,
             transfers, roundTrip >>

Null == << "null" >>
NoFetch == << -1 >>
NoAccess == [ secure |-> FALSE, rejectUnauthorized |-> FALSE, called |-> FALSE ]
NoRoundTrip == [ valid |-> FALSE, path |-> NoText, fileName |-> NoText, bytes |-> << >> ]
\* values of process.env.FTP_TYPE ("" when unset)
FtpTypes == { "FTPS", "" }

\* the options literal of client.access
AccessOptions(t) ==
    [ secure |-> t = "FTPS", rejectUnauthorized |-> FALSE, called |-> TRUE ]
NoPath == [ dir |-> "none", prefix |-> "", uuid |-> 0, name |-> NoText ]
\* a staging name built without the generated identifier
StagingPathNoUuid(dir, prefix, uuid, name) ==
    [ dir |-> dir, prefix |-> prefix, uuid |-> 0, name |-> name ]
\* path.join(dir, `${prefix}${uuid}${name}`)
StagingPath(dir, prefix, uuid, name) ==
    [ dir |-> dir, prefix |-> prefix, uuid |-> uuid, name |-> name ]
NoRequest == [ path |-> NoText, fileName |-> NoText, kind |-> "none",
               urlFile |-> NoText, base64File |-> NoText, hasFile |-> FALSE ]
NoResponse == [ status |-> 0, message |-> NoMsg, remotePath |-> NoText,
                size |-> 0, contentType |-> Null, source |-> "",
                body |-> << >>, files |-> << >> ]
UndefinedInfo == [ size |-> 0, contentType |-> Null, defined |-> FALSE ]
InitialInfo == [ size |-> 0, contentType |-> Null, defined |-> TRUE ]

ErrorResponse(code, msg) == [ NoResponse EXCEPT !.status = code, !.message = msg ]

\* uuidv4(): a value no earlier request has drawn
Uuidv4 == served

\* fs.unlinkSync on an existing file
Unlink(d, p) == [ q \in (DOMAIN d) \ {p} |-> d[q] ]
\* fs.writeFileSync / a finished write stream
WriteFile(d, p, bytes) == [ q \in (DOMAIN d) \cup {p} |-> IF q = p THEN bytes ELSE d[q] ]
ExistsSync(d, p) == p \in DOMAIN d

\* a slot with no request in flight
IdleTask == [ fileName |-> NoText, kind |-> "none", pc |-> "idle",
              tempFilePath |-> NoPath, read |-> << >> ]

InitState ==
    /\ pc = "idle"
    /\ req = NoRequest
    /\ served = 0
    /\ tempFilePath = NoPath
    /\ disk = << >>
    /\ fileInfo = InitialInfo
    /\ session = "none"
    /\ cwd = << >>
    /\ dirIdx = 0
    /\ remoteDirs = { << >>, << <<"b">> >>, << <<"b">>, <<"b">> >> }
    /\ remoteFiles = ( << <<"b">>, <<"f">> >> :> <<1, 2>> )
    /\ response = NoResponse
    /\ fetches = 0
    /\ accessCalls = 0
    /\ stagingWrites = 0
    /\ fetched = NoFetch
    /\ ftpResult = "none"
    /\ access = NoAccess
    /\ unlinks = 0
    /\ transfers = 0
    /\ roundTrip = NoRoundTrip
    /\ tasks = [ i \in 1..MaxInFlight |-> IdleTask ]
    /\ uuids = 0

\* a deployment configured for FTPS
Init ==
    /\ InitState
    /\ ftpType = "FTPS"

\* the same program under any value of FTP_TYPE
InitCfg ==
    /\ InitState
    /\ ftpType \in FtpTypes

\* a new request arrives once the previous handler has returned or is stuck
CanReceive == pc \in {"idle", "done", "hung"} /\ served < MaxRequests

Receive(r, start) ==
    /\ CanReceive
    /\ req' = r
    /\ pc' = start
    /\ served' = served + 1
    /\ tempFilePath' = NoPath
    /\ fileInfo' = InitialInfo
    /\ session' = "none"
    /\ cwd' = << >>
    /\ dirIdx' = 0
    /\ response' = NoResponse
    /\ fetches' = 0
    /\ accessCalls' = 0
    /\ stagingWrites' = 0
    /\ fetched' = NoFetch
    /\ ftpResult' = "none"
    /\ access' = NoAccess
    /\ unlinks' = 0
    /\ transfers' = 0
    /\ UNCHANGED << disk, remoteDirs, remoteFiles, roundTrip, ftpType, tasks, uuids >>

(* ------------------------ POST /api/upload ----------------------------- *)
SizeSmall == 100

Letters == { B64Alphabet[i] : i \in 1..52 }

\* new URL(s) succeeds: s starts with a scheme, letters followed by ':'
UrlValid(s) ==
    /\ Includes(s, <<":">>)
    /\ IndexOf(s, <<":">>) > 1
    /\ \A i \in 1..(IndexOf(s, <<":">>) - 1) : s[i] \in Letters

\* the fileName check of the handlers
HasPathChars(name) == Includes(name, <<"/">>) \/ Includes(name, <<"\\">>)

\* a parameter check that forgets the two sources
UploadParamsIncompleteNoSource(r) ==
    \/ ~Truthy(r.path)
    \/ ~Truthy(r.fileName)

\* the parameter check of app.post('/api/upload')
UploadParamsIncomplete(r) ==
    \/ (~Truthy(r.urlFile) /\ ~Truthy(r.base64File))
    \/ ~Truthy(r.path)
    \/ ~Truthy(r.fileName)

\* a dispatch that tests base64File first
SourceKindBase64First(r) ==
    IF Truthy(r.base64File) THEN "base64"
    ELSE IF Truthy(r.urlFile) THEN "url"
    ELSE "none"

\* if (urlFile) ... else if (base64File) ...
SourceKind(r) ==
    IF Truthy(r.urlFile) THEN "url"
    ELSE IF Truthy(r.base64File) THEN "base64"
    ELSE "none"

\* the data-URI handling of the base64 branch
HasDataUriPrefix(b) == Includes(b, SemiBase64Comma)
Base64Data(b) == IF HasDataUriPrefix(b) THEN Split(b, SemiBase64Comma)[2] ELSE b
DetectedContentType(b) ==
    IF HasDataUriPrefix(b)
    THEN RemoveFirst(Split(b, SemiBase64Comma)[1], DataColon)
    ELSE Null

LooksLikeHtml(bytes) == Includes(bytes, DoctypeTag) \/ Includes(bytes, HtmlTag)

\* what a write that breaks midway leaves behind
Partial(bytes) == SubSeq(bytes, 1, Len(bytes) - 1)

\* status chosen by the catch block of app.post('/api/upload')
UploadStatusCode(msg) ==
    IF Includes(msg, <<"HTML">>) \/ Includes(msg, <<"pagina","web">>) THEN 400
    ELSE IF Includes(msg, <<"ENOTFOUND">>) \/ Includes(msg, <<"ETIMEDOUT">>) THEN 400
    ELSE IF Includes(msg, <<"status","code">>) THEN 400
    ELSE 500

\* `${remotePath}/${fileName}`
JoinRemote(path, name) == path \o <<"/">> \o name

Respond(r) ==
    /\ response' = r
    /\ pc' = "done"

\* the inner catch block: best-effort cleanup, then the classified error
\* (u: unlinkSync calls the try block made before throwing)
UploadCatch(msg, d, u) ==
    /\ \E unlinkOk \in BOOLEAN :
          disk' = IF ExistsSync(d, tempFilePath) /\ unlinkOk
                  THEN Unlink(d, tempFilePath) ELSE d
    /\ unlinks' = unlinks + u + (IF ExistsSync(d, tempFilePath) THEN 1 ELSE 0)
    /\ Respond(ErrorResponse(UploadStatusCode(msg), msg))

\* what downloadFile's promise resolves with: 'finish' carries no value
DownloadFileResult(body) == UndefinedInfo

\* the synchronous head of the handler, up to its first await
UploadStart ==
    /\ pc = "up_start"
    /\ UNCHANGED << fetched, ftpResult, transfers >>
    /\ UNCHANGED << req, ftpType, tasks, uuids, served, session, cwd, dirIdx, remoteDirs, remoteFiles, roundTrip >>
    /\ IF UploadParamsIncomplete(req) \/ HasPathChars(req.fileName)
       THEN /\ Respond(ErrorResponse(400, NoMsg))
            /\ UNCHANGED << tempFilePath, disk, unlinks, fileInfo, fetches, accessCalls, access,
                            stagingWrites >>
       ELSE LET tmp == StagingPath("temp", "temp-", Uuidv4, NoText) IN
            /\ tempFilePath' = tmp
            /\ IF SourceKind(req) = "none"
               THEN /\ pc' = "ftp_access"
                    /\ accessCalls' = accessCalls + 1
                    /\ access' = AccessOptions(ftpType)
                    /\ UNCHANGED << disk, unlinks, fileInfo, response, fetches, stagingWrites >>
               ELSE IF SourceKind(req) = "url"
               THEN IF ~UrlValid(req.urlFile)
                    THEN /\ Respond(ErrorResponse(400, NoMsg))
                         /\ UNCHANGED << disk, unlinks, fileInfo, fetches, accessCalls, access,
                                         stagingWrites >>
                    ELSE /\ pc' = "up_fetch"
                         /\ fetches' = fetches + 1
                         /\ UNCHANGED << disk, unlinks, fileInfo, response, accessCalls, access,
                                         stagingWrites >>
               ELSE LET buffer == BufferFromBase64(Base64Data(req.base64File))
                        info == [ size |-> Len(buffer),
                                  contentType |-> DetectedContentType(req.base64File),
                                  defined |-> TRUE ]
                        written == WriteFile(disk, tmp, buffer)
                    IN
                    IF Len(buffer) = 0
                    THEN /\ Respond(ErrorResponse(400, NoMsg))
                         /\ UNCHANGED << disk, unlinks, fileInfo, fetches, accessCalls, access,
                                         stagingWrites >>
                    ELSE \E w \in {"ok", "fail_nofile", "fail_partial"} :
                         /\ UNCHANGED fetches
                         /\ CASE w = "fail_nofile" ->
                                   /\ stagingWrites' = stagingWrites + 1
                                   /\ Respond(ErrorResponse(400, MsgWriteError))
                                   /\ UNCHANGED << disk, unlinks, fileInfo, accessCalls, access >>
                              [] w = "fail_partial" ->
                                   /\ disk' = WriteFile(disk, tmp, Partial(buffer))
                                   /\ UNCHANGED unlinks
                                   /\ stagingWrites' = stagingWrites + 1
                                   /\ Respond(ErrorResponse(400, MsgWriteError))
                                   /\ UNCHANGED << fileInfo, accessCalls, access >>
                              [] w = "ok" ->
                                   /\ stagingWrites' = stagingWrites + 1
                                   /\ fileInfo' = info
                                   /\ IF info.size < SizeSmall /\ LooksLikeHtml(buffer)
                                      THEN /\ \E unlinkOk \in BOOLEAN :
                                                /\ disk' = IF unlinkOk THEN Unlink(written, tmp)
                                                           ELSE written
                                                /\ Respond(ErrorResponse(400,
                                                      IF unlinkOk THEN NoMsg
                                                      ELSE MsgUnlinkError))
                                           /\ unlinks' = unlinks + 1
                                           /\ UNCHANGED << accessCalls, access >>
                                      ELSE /\ disk' = written
                                           /\ UNCHANGED unlinks
                                           /\ pc' = "ftp_access"
                                           /\ accessCalls' = accessCalls + 1
                                           /\ access' = AccessOptions(ftpType)
                                           /\ UNCHANGED response

\* await axios(...) settles
UploadFetch ==
    /\ pc = "up_fetch"
    /\ UNCHANGED << fetched, ftpResult >>
    /\ UNCHANGED << req, ftpType, tasks, uuids, served, tempFilePath, fileInfo, fetches, stagingWrites >>
    /\ UNCHANGED ftpVars
    /\ \/ /\ pc' = "up_pipe"
          /\ UNCHANGED << disk, unlinks, response >>
       \/ \E e \in AxiosErrors : UploadCatch(e, disk, 0)

\* the piped write stream finishes, fails, or the source stream breaks
UploadPipe ==
    /\ pc = "up_pipe"
    /\ UNCHANGED ftpResult
    /\ UNCHANGED << req, ftpType, tasks, uuids, served, tempFilePath, fetches, transfers, session, cwd, dirIdx,
                    remoteDirs, remoteFiles, roundTrip >>
    /\ stagingWrites' = stagingWrites + 1
    /\ \E body \in FetchBodies :
       \/ LET written == WriteFile(disk, tempFilePath, body)
              info == DownloadFileResult(body)
          IN  /\ fetched' = body
              /\ fileInfo' = info
              /\ IF ~info.defined
                 THEN /\ UploadCatch(MsgTypeError, written, 0)
                      /\ UNCHANGED << accessCalls, access >>
                 ELSE /\ disk' = written
                      /\ UNCHANGED unlinks
                      /\ pc' = "ftp_access"
                      /\ accessCalls' = accessCalls + 1
                      /\ access' = AccessOptions(ftpType)
                      /\ UNCHANGED response
       \/ /\ \E d \in { disk, WriteFile(disk, tempFilePath, Partial(body)) } :
                UploadCatch(MsgWriteError, d, 0)
          /\ UNCHANGED << fileInfo, accessCalls, access, fetched >>
       \/ /\ disk' = WriteFile(disk, tempFilePath, Partial(body))
          /\ UNCHANGED unlinks
          /\ pc' = "hung"
          /\ UNCHANGED << fileInfo, accessCalls, access, response, fetched >>

(* ----------------------------- uploadToFtp ----------------------------- *)
\* remotePath.split('/').filter(Boolean)
Dirs(path) == FilterNonEmpty(Split(path, <<"/">>))

\* the fileName handed to uploadToFtp
FinalFileName(r) ==
    IF r.kind = "direct" /\ ~Truthy(r.fileName) THEN OriginalName ELSE r.fileName

\* where the server stores `${remotePath}/${fileName}`: a path without a
\* leading '/' is taken relative to the session's working directory
RemoteTarget(wd, full) ==
    (IF full[1] = "/" THEN << >> ELSE wd) \o Dirs(full)

ParentOf(target) == SubSeq(target, 1, Len(target) - 1)

\* catch block of app.post('/api/upload/direct')
DirectCatch(msg, u) ==
    /\ disk' = disk
    /\ unlinks' = unlinks + u
    /\ Respond(ErrorResponse(500, msg))

\* a continuation that connects again instead of answering
AfterFtpThrowRetry(msg) ==
    /\ pc' = "ftp_access"
    /\ UNCHANGED << disk, unlinks, response >>

\* the handler's continuation when uploadToFtp throws
AfterFtpThrow(msg) ==
    IF req.kind = "upload" THEN UploadCatch(msg, disk, 0) ELSE DirectCatch(msg, 0)

\* the handler's continuation when uploadToFtp returns: unlink, then 200
UploadSuccess ==
    \E unlinkOk \in (IF ExistsSync(disk, tempFilePath) THEN BOOLEAN ELSE {FALSE}) :
       IF unlinkOk
       THEN /\ disk' = Unlink(disk, tempFilePath)
            /\ unlinks' = unlinks + 1
            /\ Respond([ NoResponse EXCEPT
                         !.status = 200,
                         !.remotePath = JoinRemote(req.path, req.fileName),
                         !.size = fileInfo.size,
                         !.contentType = fileInfo.contentType,
                         !.source = IF Truthy(req.urlFile) THEN "url" ELSE "base64" ])
       ELSE UploadCatch(MsgUnlinkError, disk, 1)

DirectSuccess ==
    \E unlinkOk \in (IF ExistsSync(disk, tempFilePath) THEN BOOLEAN ELSE {FALSE}) :
       IF unlinkOk
       THEN /\ disk' = Unlink(disk, tempFilePath)
            /\ unlinks' = unlinks + 1
            /\ Respond([ NoResponse EXCEPT
                         !.status = 200,
                         !.remotePath = JoinRemote(req.path, FinalFileName(req)),
                         !.size = fileInfo.size ])
       ELSE DirectCatch(MsgUnlinkError, 1)

AfterFtpReturn ==
    IF req.kind = "upload" THEN UploadSuccess ELSE DirectSuccess

\* a close that is skipped
CloseSkipped(s) == s

\* finally { client.close() }
Close(s) == "closed"

\* await client.access(...) settles; on success the directory loop starts
FtpAccess ==
    /\ pc = "ftp_access"
    /\ UNCHANGED fetched
    /\ UNCHANGED << req, ftpType, tasks, uuids, served, tempFilePath, fileInfo, remoteDirs, remoteFiles, roundTrip,
                    fetches, accessCalls, access, stagingWrites >>
    /\ \/ /\ session' = "open"
          /\ cwd' = << >>
          /\ IF Dirs(req.path) # << >>
             THEN pc' = "ftp_ensure" /\ dirIdx' = 1 /\ UNCHANGED transfers
             ELSE pc' = "ftp_upload" /\ dirIdx' = 0 /\ transfers' = transfers + 1
          /\ UNCHANGED << disk, unlinks, response, ftpResult >>
       \/ \E e \in AccessErrors :
          /\ session' = Close(session)
          /\ ftpResult' = "error"
          /\ AfterFtpThrow(e)
          /\ UNCHANGED << cwd, dirIdx, transfers >>

\* the leading parts of a directory chain
Prefixes(p) == { SubSeq(p, 1, k) : k \in 1..Len(p) }

\* an ensureDir that reports the refusal of MKD for a directory that exists
EnsureDirStrict(dirs, files, p) ==
    LET made == { q \in Prefixes(p) :
                    \A r \in Prefixes(q) : r \notin DOMAIN files /\ r \notin dirs }
    IN  [ ok   |-> made = Prefixes(p),
          dirs |-> dirs \cup made ]

\* client.ensureDir(currentPath) with currentPath = '/d1/.../dk': from the
\* root, for each segment, MKD with its error ignored, then CWD; the call
\* fails at the first segment that cannot be entered
EnsureDir(dirs, files, p) ==
    LET made == { q \in Prefixes(p) : \A r \in Prefixes(q) : r \notin DOMAIN files }
    IN  [ ok   |-> made = Prefixes(p),
          dirs |-> dirs \cup made ]

\* await client.ensureDir(currentPath) settles
FtpEnsureDir ==
    /\ pc = "ftp_ensure"
    /\ UNCHANGED fetched
    /\ UNCHANGED << req, ftpType, tasks, uuids, served, tempFilePath, fileInfo, remoteFiles, roundTrip,
                    fetches, accessCalls, access, stagingWrites >>
    /\ LET dirs == Dirs(req.path)
           currentPath == SubSeq(dirs, 1, dirIdx)
           made == EnsureDir(remoteDirs, remoteFiles, currentPath)
       IN  \/ /\ made.ok
              /\ remoteDirs' = made.dirs
              /\ cwd' = currentPath
              /\ IF dirIdx < Len(dirs)
                 THEN pc' = "ftp_ensure" /\ dirIdx' = dirIdx + 1 /\ UNCHANGED transfers
                 ELSE pc' = "ftp_upload" /\ dirIdx' = dirIdx /\ transfers' = transfers + 1
              /\ UNCHANGED << session, disk, unlinks, response, ftpResult >>
           \/ /\ ~made.ok
              /\ remoteDirs' = made.dirs
              /\ session' = Close(session)
              /\ ftpResult' = "error"
              /\ AfterFtpThrow(MsgMkdir)
              /\ UNCHANGED << cwd, dirIdx, transfers >>
           \/ /\ session' = Close(session)
              /\ ftpResult' = "error"
              /\ AfterFtpThrow(MsgMkdir)
              /\ UNCHANGED << cwd, dirIdx, remoteDirs, transfers >>

\* await client.uploadFrom(localFilePath, `${remotePath}/${fileName}`) settles
FtpUploadFrom ==
    /\ pc = "ftp_upload"
    /\ UNCHANGED fetched
    /\ UNCHANGED << req, ftpType, tasks, uuids, served, tempFilePath, fileInfo, cwd, dirIdx, remoteDirs,
                    fetches, transfers, accessCalls, access, stagingWrites >>
    /\ LET target == RemoteTarget(cwd, JoinRemote(req.path, FinalFileName(req)))
       IN  \/ /\ ExistsSync(disk, tempFilePath)
              /\ ParentOf(target) \in remoteDirs
              /\ target \notin remoteDirs
              /\ remoteFiles' = WriteFile(remoteFiles, target, disk[tempFilePath])
              /\ session' = Close(session)
              /\ ftpResult' = "ok"
              /\ AfterFtpReturn
              /\ roundTrip' =
                    IF req.kind = "upload" /\ SourceKind(req) = "base64"
                       /\ response'.status = 200
                    THEN [ valid |-> TRUE, path |-> req.path, fileName |-> req.fileName,
                           bytes |-> BufferFromBase64(Base64Data(req.base64File)) ]
                    ELSE NoRoundTrip
           \/ /\ session' = Close(session)
              /\ ftpResult' = "error"
              /\ AfterFtpThrow(MsgStor)
              /\ UNCHANGED << remoteFiles, roundTrip >>

(* --------------------- POST /api/upload/direct ------------------------- *)
\* upload.single('file'): multer stores the part under a unique name
DirectMulter ==
    /\ pc = "direct_multer"
    /\ UNCHANGED << fetched, ftpResult >>
    /\ pc' = "direct_start"
    /\ UNCHANGED << req, ftpType, tasks, uuids, served, response, fetches >>
    /\ UNCHANGED ftpVars
    /\ IF req.hasFile
       THEN \E body \in MultipartBodies :
            LET stored == StagingPath("temp", "", Uuidv4, OriginalName) IN
            /\ tempFilePath' = stored
            /\ disk' = WriteFile(disk, stored, body)
            /\ UNCHANGED unlinks
            /\ fileInfo' = [ size |-> Len(body), contentType |-> Null, defined |-> TRUE ]
            /\ stagingWrites' = stagingWrites + 1
       ELSE UNCHANGED << tempFilePath, disk, unlinks, fileInfo, stagingWrites >>

\* the synchronous head of the handler, up to await uploadToFtp
DirectStart ==
    /\ pc = "direct_start"
    /\ UNCHANGED << fetched, ftpResult >>
    /\ UNCHANGED << req, ftpType, tasks, uuids, served, tempFilePath, disk, unlinks, fileInfo, session, cwd, dirIdx,
                    remoteDirs, remoteFiles, roundTrip, fetches, transfers, stagingWrites >>
    /\ IF ~req.hasFile \/ ~Truthy(req.path)
       THEN /\ Respond(ErrorResponse(400, NoMsg))
            /\ UNCHANGED << accessCalls, access >>
       ELSE /\ pc' = "ftp_access"
            /\ accessCalls' = accessCalls + 1
            /\ access' = AccessOptions(ftpType)
            /\ UNCHANGED response

(* ------------------------- GET /api/download --------------------------- *)
\* the directory client.cd(path) enters
CdTarget(wd, path) == (IF path[1] = "/" THEN << >> ELSE wd) \o Dirs(path)

\* names client.list() returns for the working directory
ListNames(wd) ==
    { p[Len(p)] : p \in { q \in (DOMAIN remoteFiles) \cup remoteDirs :
                             q # << >> /\ ParentOf(q) = wd } }

\* a catch block that looks for the wrong words
DownloadStatusCodeWrongWords(msg) ==
    IF Includes(msg, <<"not","found">>) THEN 404 ELSE 500

\* catch block of app.get('/api/download')
DownloadStatusCode(msg) ==
    IF Includes(msg, <<"nao","encontrado">>) THEN 404 ELSE 500

DownloadCatch(msg) == Respond(ErrorResponse(DownloadStatusCode(msg), msg))

DownloadStart ==
    /\ pc = "dl_start"
    /\ UNCHANGED << fetched, ftpResult >>
    /\ UNCHANGED << req, ftpType, tasks, uuids, served, disk, unlinks, fileInfo, session, cwd, dirIdx, remoteDirs,
                    remoteFiles, roundTrip, fetches, transfers, stagingWrites >>
    /\ IF ~Truthy(req.path) \/ ~Truthy(req.fileName) \/ HasPathChars(req.fileName)
       THEN /\ Respond(ErrorResponse(400, NoMsg))
            /\ UNCHANGED << tempFilePath, accessCalls, access >>
       ELSE /\ tempFilePath' = StagingPath("downloads", "", Uuidv4, req.fileName)
            /\ pc' = "dl_access"
            /\ accessCalls' = accessCalls + 1
            /\ access' = AccessOptions(ftpType)
            /\ UNCHANGED response

DlAccess ==
    /\ pc = "dl_access"
    /\ UNCHANGED fetched
    /\ UNCHANGED << req, ftpType, tasks, uuids, served, tempFilePath, disk, unlinks, fileInfo, dirIdx, remoteDirs,
                    remoteFiles, roundTrip, fetches, transfers, accessCalls, access, stagingWrites >>
    /\ \/ /\ session' = "open"
          /\ cwd' = << >>
          /\ pc' = "dl_cd"
          /\ UNCHANGED << response, ftpResult >>
       \/ \E e \in AccessErrors :
          /\ session' = Close(session)
          /\ ftpResult' = "error"
          /\ DownloadCatch(e)
          /\ UNCHANGED cwd

DlCd ==
    /\ pc = "dl_cd"
    /\ UNCHANGED fetched
    /\ UNCHANGED << req, ftpType, tasks, uuids, served, tempFilePath, disk, unlinks, fileInfo, dirIdx, remoteDirs,
                    remoteFiles, roundTrip, fetches, transfers, accessCalls, access, stagingWrites >>
    /\ \/ /\ CdTarget(cwd, req.path) \in remoteDirs
          /\ cwd' = CdTarget(cwd, req.path)
          /\ pc' = "dl_list"
          /\ UNCHANGED << session, response, ftpResult >>
       \/ /\ session' = Close(session)
          /\ ftpResult' = "error"
          /\ DownloadCatch(MsgDirNotFound)
          /\ UNCHANGED cwd

DlList ==
    /\ pc = "dl_list"
    /\ UNCHANGED fetched
    /\ UNCHANGED << req, ftpType, tasks, uuids, served, tempFilePath, disk, unlinks, fileInfo, cwd, dirIdx, remoteDirs,
                    remoteFiles, roundTrip, fetches, accessCalls, access, stagingWrites >>
    /\ \/ IF req.fileName \in ListNames(cwd)
          THEN /\ pc' = "dl_retr"
               /\ transfers' = transfers + 1
               /\ UNCHANGED << session, response, ftpResult >>
          ELSE /\ session' = Close(session)
               /\ ftpResult' = "error"
               /\ UNCHANGED transfers
               /\ DownloadCatch(MsgFileNotFound)
       \/ /\ session' = Close(session)
          /\ ftpResult' = "error"
          /\ UNCHANGED transfers
          /\ DownloadCatch(MsgRetr)

\* await client.downloadTo(localFilePath, fileName) settles; a transfer that
\* breaks after data arrived leaves the data in the local file
DlDownloadTo ==
    /\ pc = "dl_retr"
    /\ UNCHANGED fetched
    /\ UNCHANGED << req, ftpType, tasks, uuids, served, tempFilePath, fileInfo, cwd, dirIdx, remoteDirs,
                    remoteFiles, roundTrip, fetches, transfers, accessCalls, access >>
    /\ stagingWrites' = stagingWrites + 1
    /\ UNCHANGED unlinks
    /\ session' = Close(session)
    /\ LET source == cwd \o << req.fileName >> IN
       \/ /\ source \in DOMAIN remoteFiles
          /\ disk' = WriteFile(disk, tempFilePath, remoteFiles[source])
          /\ pc' = "dl_sending"
          /\ ftpResult' = "ok"
          /\ UNCHANGED response
       \/ /\ disk' = disk
          /\ ftpResult' = "error"
          /\ DownloadCatch(MsgRetr)
       \/ /\ source \in DOMAIN remoteFiles
          /\ \E k \in 1..Len(remoteFiles[source]) :
                disk' = WriteFile(disk, tempFilePath, SubSeq(remoteFiles[source], 1, k))
          /\ ftpResult' = "error"
          /\ DownloadCatch(MsgRetr)

\* a callback that leaves the staged file in place
DownloadSentNoCleanup ==
    /\ pc = "dl_sending"
    /\ UNCHANGED << fetched, ftpResult >>
    /\ UNCHANGED << req, ftpType, tasks, uuids, served, tempFilePath, fileInfo, fetches, stagingWrites >>
    /\ UNCHANGED ftpVars
    /\ UNCHANGED << disk, unlinks >>
    /\ \/ Respond([ NoResponse EXCEPT !.status = 200, !.body = disk[tempFilePath],
                                      !.size = Len(disk[tempFilePath]) ])
       \/ Respond([ NoResponse EXCEPT !.status = 200,
                                      !.body = Partial(disk[tempFilePath]),
                                      !.size = Len(disk[tempFilePath]) ])
       \/ /\ pc' = "hung"
          /\ UNCHANGED response

\* the callback of res.download runs: the send completed, or failed
DownloadSent ==
    /\ pc = "dl_sending"
    /\ UNCHANGED << fetched, ftpResult >>
    /\ UNCHANGED << req, ftpType, tasks, uuids, served, tempFilePath, fileInfo, fetches, stagingWrites >>
    /\ UNCHANGED ftpVars
    /\ unlinks' = unlinks + 1
    /\ \E unlinkOk \in BOOLEAN :
          disk' = IF unlinkOk THEN Unlink(disk, tempFilePath) ELSE disk
    /\ \/ Respond([ NoResponse EXCEPT !.status = 200, !.body = disk[tempFilePath],
                                      !.size = Len(disk[tempFilePath]) ])
       \/ Respond([ NoResponse EXCEPT !.status = 200,
                                      !.body = Partial(disk[tempFilePath]),
                                      !.size = Len(disk[tempFilePath]) ])
       \/ /\ pc' = "hung"
          /\ UNCHANGED response

(* --------------------------- GET /api/list ----------------------------- *)
TypeFile == 1
TypeDirectory == 2
\* sizes a server may report for a directory entry
DirSizes == { 0, 4096 }

\* the entries client.list() may return for the working directory, in any
\* order the server chooses
Entries(wd) ==
    { [ name |-> p[Len(p)], size |-> Len(remoteFiles[p]), type |-> TypeFile ] :
        p \in { q \in DOMAIN remoteFiles : ParentOf(q) = wd } }
    \cup
    { [ name |-> p[Len(p)], size |-> sz, type |-> TypeDirectory ] :
        p \in { q \in remoteDirs : q # << >> /\ ParentOf(q) = wd }, sz \in DirSizes }

Listings(wd) ==
    LET names == ListNames(wd)
        n == Cardinality(names)
    IN  { l \in [ 1..n -> Entries(wd) ] : { l[i].name : i \in 1..n } = names }

\* list.map(item => ({...}))
MapItem(item) ==
    [ name |-> item.name,
      size |-> item.size,
      type |-> IF item.type = TypeDirectory THEN "pasta" ELSE "arquivo",
      idType |-> item.type,
      isDirectory |-> item.type = TypeDirectory ]

MapList(list) == [ i \in 1..Len(list) |-> MapItem(list[i]) ]

ListStart ==
    /\ pc = "ls_start"
    /\ UNCHANGED << fetched, ftpResult >>
    /\ UNCHANGED << req, ftpType, tasks, uuids, served, tempFilePath, disk, unlinks, fileInfo, cwd, dirIdx, remoteDirs,
                    remoteFiles, roundTrip, fetches, transfers, stagingWrites >>
    /\ IF ~Truthy(req.path)
       THEN /\ Respond(ErrorResponse(400, NoMsg))
            /\ session' = Close(session)
            /\ UNCHANGED << accessCalls, access >>
       ELSE /\ pc' = "ls_access"
            /\ accessCalls' = accessCalls + 1
            /\ access' = AccessOptions(ftpType)
            /\ UNCHANGED << session, response >>

ListAccess ==
    /\ pc = "ls_access"
    /\ UNCHANGED << fetched, ftpResult >>
    /\ UNCHANGED << req, ftpType, tasks, uuids, served, tempFilePath, disk, unlinks, fileInfo, dirIdx, remoteDirs,
                    remoteFiles, roundTrip, fetches, transfers, accessCalls, access, stagingWrites >>
    /\ \/ /\ session' = "open"
          /\ cwd' = << >>
          /\ pc' = "ls_cd"
          /\ UNCHANGED response
       \/ \E e \in AccessErrors :
          /\ Respond(ErrorResponse(500, e))
          /\ session' = Close(session)
          /\ UNCHANGED cwd

\* a navigation step that creates the directory it is asked to enter
ListCdEnsuring ==
    /\ pc = "ls_cd"
    /\ UNCHANGED << fetched, ftpResult >>
    /\ UNCHANGED << req, ftpType, tasks, uuids, served, tempFilePath, disk, unlinks, fileInfo, dirIdx,
                    remoteFiles, roundTrip, fetches, transfers, accessCalls, access, stagingWrites >>
    /\ \/ /\ remoteDirs' = EnsureDir(remoteDirs, remoteFiles, CdTarget(cwd, req.path)).dirs
          /\ cwd' = CdTarget(cwd, req.path)
          /\ pc' = "ls_list"
          /\ UNCHANGED << session, response >>
       \/ /\ Respond(ErrorResponse(404, MsgDirNotFound))
          /\ session' = Close(session)
          /\ UNCHANGED << cwd, remoteDirs >>

\* await client.cd(remotePath) settles
ListCd ==
    /\ pc = "ls_cd"
    /\ UNCHANGED << fetched, ftpResult >>
    /\ UNCHANGED << req, ftpType, tasks, uuids, served, tempFilePath, disk, unlinks, fileInfo, dirIdx, remoteDirs,
                    remoteFiles, roundTrip, fetches, transfers, accessCalls, access, stagingWrites >>
    /\ \/ /\ CdTarget(cwd, req.path) \in remoteDirs
          /\ cwd' = CdTarget(cwd, req.path)
          /\ pc' = "ls_list"
          /\ UNCHANGED << session, response >>
       \/ /\ Respond(ErrorResponse(404, MsgDirNotFound))
          /\ session' = Close(session)
          /\ UNCHANGED cwd

ListList ==
    /\ pc = "ls_list"
    /\ UNCHANGED << fetched, ftpResult >>
    /\ UNCHANGED << req, ftpType, tasks, uuids, served, tempFilePath, disk, unlinks, fileInfo, cwd, dirIdx, remoteDirs,
                    remoteFiles, roundTrip, fetches, transfers, accessCalls, access, stagingWrites >>
    /\ session' = Close(session)
    /\ \/ \E list \in Listings(cwd) :
             Respond([ NoResponse EXCEPT !.status = 200, !.remotePath = req.path,
                                         !.files = MapList(list) ])
       \/ Respond(ErrorResponse(500, MsgRetr))

(* ----------------------------- requests -------------------------------- *)
ReceiveUpload ==
    \E s \in UploadSources, p \in Paths, f \in FileNames :
       Receive([ path |-> p, fileName |-> f, kind |-> "upload", urlFile |-> s[1],
                 base64File |-> s[2], hasFile |-> FALSE ], "up_start")

ReceiveDirect ==
    \E h \in BOOLEAN, p \in Paths, f \in FileNames :
       Receive([ path |-> p, fileName |-> f, kind |-> "direct", urlFile |-> NoText,
                 base64File |-> NoText, hasFile |-> h ], "direct_multer")

ReceiveDownload ==
    \E p \in Paths, f \in FileNames :
       Receive([ path |-> p, fileName |-> f, kind |-> "download", urlFile |-> NoText,
                 base64File |-> NoText, hasFile |-> FALSE ], "dl_start")

ReceiveList ==
    \E p \in Paths :
       Receive([ path |-> p, fileName |-> NoText, kind |-> "list", urlFile |-> NoText,
                 base64File |-> NoText, hasFile |-> FALSE ], "ls_start")

Next ==
    \/ ReceiveUpload
    \/ ReceiveDirect
    \/ ReceiveDownload
    \/ ReceiveList
    \/ UploadStart
    \/ UploadFetch
    \/ UploadPipe
    \/ DirectMulter
    \/ DirectStart
    \/ FtpAccess
    \/ FtpEnsureDir
    \/ FtpUploadFrom
    \/ DownloadStart
    \/ DlAccess
    \/ DlCd
    \/ DlList
    \/ DlDownloadTo
    \/ DownloadSent
    \/ ListStart
    \/ ListAccess
    \/ ListCd
    \/ ListList

Spec == Init /\ [][Next]_vars

SpecCfg == InitCfg /\ [][Next]_vars

\* the steps of a request in flight: continuations the event loop runs once
\* the operation they wait for has completed or failed
HandlerStep ==
    \/ UploadStart \/ UploadFetch \/ UploadPipe
    \/ DirectMulter \/ DirectStart
    \/ FtpAccess \/ FtpEnsureDir \/ FtpUploadFrom
    \/ DownloadStart \/ DlAccess \/ DlCd \/ DlList \/ DlDownloadTo \/ DownloadSent
    \/ ListStart \/ ListAccess \/ ListCd \/ ListList

(* ------------------- requests in flight side by side ------------------- *)
\* every variable of a single handler except the local disk
handlerVars == << pc, req, served, tempFilePath, fileInfo, session, cwd, dirIdx,
                  remoteDirs, remoteFiles, response, fetches, accessCalls,
                  stagingWrites, fetched, ftpResult, ftpType, access, unlinks,
                  transfers, roundTrip >>

Slots == 1..MaxInFlight
\* the endpoints that stage a local file
StagedKinds == { "upload", "direct", "download" }
\* fileName of the request (originalname of the part for a direct upload)
ConcurrentNames == { <<"f">>, <<"0","1","-","f">> }

HexChars == <<"0","1","2","3","4","5","6","7","8","9","a","b","c","d","e","f">>
\* the text of a generated identifier: the same length for every value
UuidString(n) == << HexChars[(n \div 16) + 1], HexChars[(n % 16) + 1] >>
\* the file name the template literals produce, under its directory
PathString(p) ==
    << p.dir, "/" >> \o (IF p.prefix = "" THEN << >> ELSE << p.prefix >>)
       \o UuidString(p.uuid)
       \o (IF p.name = NoText THEN << >> ELSE << "-" >> \o p.name)

\* the staging path each endpoint builds from a generated identifier
TaskPath(kind, uuid, name) ==
    CASE kind = "upload" -> StagingPath("temp", "temp-", uuid, NoText)
      [] kind = "direct" -> StagingPath("temp", "", uuid, name)
      [] kind = "download" -> StagingPath("downloads", "", uuid, name)

\* content a request stages: told apart by the request that wrote it
TaskBytes(t) == << t.tempFilePath.uuid, Len(t.fileName) >>

\* a request arrives while others are in flight
TaskReceive(i) ==
    /\ tasks[i].pc = "idle"
    /\ uuids + Cardinality({ j \in Slots : tasks[j].pc = "start" }) < MaxUuids
    /\ \E k \in StagedKinds, f \in ConcurrentNames :
          tasks' = [ tasks EXCEPT ![i] = [ IdleTask EXCEPT !.fileName = f, !.kind = k,
                                                           !.pc = "start" ] ]
    /\ UNCHANGED << uuids, disk >>
    /\ UNCHANGED handlerVars

\* uuidv4() and the path built from it (or a 400 before any staging)
TaskStage(i) ==
    /\ tasks[i].pc = "start"
    /\ \/ /\ uuids' = uuids + 1
          /\ tasks' = [ tasks EXCEPT ![i].pc = "write",
                           ![i].tempFilePath =
                               TaskPath(tasks[i].kind, uuids + 1, tasks[i].fileName) ]
       \/ /\ tasks' = [ tasks EXCEPT ![i] = IdleTask ]
          /\ UNCHANGED uuids
    /\ UNCHANGED disk
    /\ UNCHANGED handlerVars

\* the staged file is written: fetch pipe, writeFileSync, multer, downloadTo
TaskWrite(i) ==
    /\ tasks[i].pc = "write"
    /\ \/ /\ disk' = WriteFile(disk, tasks[i].tempFilePath, TaskBytes(tasks[i]))
          /\ tasks' = [ tasks EXCEPT ![i].pc = "read" ]
       \/ /\ disk' = WriteFile(disk, tasks[i].tempFilePath, << >>)
          /\ tasks' = [ tasks EXCEPT ![i].pc = "cleanup" ]
       \/ /\ UNCHANGED disk
          /\ tasks' = [ tasks EXCEPT ![i].pc = "cleanup" ]
    /\ UNCHANGED uuids
    /\ UNCHANGED handlerVars

\* the staged file is read: client.uploadFrom, res.download
TaskRead(i) ==
    /\ tasks[i].pc = "read"
    /\ tasks' = [ tasks EXCEPT ![i].pc = "cleanup",
                     ![i].read = IF ExistsSync(disk, tasks[i].tempFilePath)
                                 THEN disk[tasks[i].tempFilePath] ELSE << -1 >> ]
    /\ UNCHANGED << uuids, disk >>
    /\ UNCHANGED handlerVars

\* the handler ends: fs.unlinkSync of its staging path where the path taken has one
TaskCleanup(i) ==
    /\ tasks[i].pc = "cleanup"
    /\ \/ disk' = Unlink(disk, tasks[i].tempFilePath)
       \/ UNCHANGED disk
    /\ tasks' = [ tasks EXCEPT ![i] = IdleTask ]
    /\ UNCHANGED uuids
    /\ UNCHANGED handlerVars

NextConcurrent ==
    \E i \in Slots :
       \/ TaskReceive(i)
       \/ TaskStage(i)
       \/ TaskWrite(i)
       \/ TaskRead(i)
       \/ TaskCleanup(i)

SpecConcurrent == Init /\ [][NextConcurrent]_vars

TypeOK ==
    /\ pc \in { "idle", "done", "hung", "up_start", "up_fetch", "up_pipe",
                "direct_multer", "direct_start", "ftp_access", "ftp_ensure",
                "ftp_upload", "dl_start", "dl_access", "dl_cd", "dl_list", "dl_retr",
                "dl_sending", "ls_start", "ls_access", "ls_cd", "ls_list" }
    /\ served \in 0..MaxRequests
    /\ session \in { "none", "open", "closed" }
    /\ response.status \in { 0, 200, 400, 404, 500 }
    /\ ftpType \in FtpTypes
    /\ access \in { NoAccess, AccessOptions(ftpType) }
    /\ unlinks \in 0..2
    /\ transfers \in 0..1
    /\ roundTrip.valid \in BOOLEAN

(* ------------------------------ claims --------------------------------- *)
Responded == response.status # 0
Staged == ExistsSync(disk, tempFilePath)

\* C1: when the response of a POST /api/upload request is sent, no file
\* exists at the request's staging path.
CexC1 == (req.kind = "upload" /\ Responded) => ~Staged

\* C2: when the response of a POST /api/upload/direct request whose
\* multipart file was staged is sent, the staged file has been deleted.
CexC2 == (req.kind = "direct" /\ req.hasFile /\ Responded) => ~Staged

\* C3: when GET /api/download answers with an error after the remote
\* download failed, no file remains at the allocated staging path.
CexC3 ==
    (req.kind = "download" /\ ftpResult = "error" /\ Responded) => ~Staged

\* C4: outside the remote calls of uploadToFtp, downloadFromFtp and the
\* list handler no session is open: once the call has finished, on success
\* or on error, the session is closed.
ThmC4 ==
    /\ session = "open" =>
          pc \in { "ftp_ensure", "ftp_upload", "dl_cd", "dl_list", "dl_retr",
                   "ls_cd", "ls_list" }
    /\ (pc \in { "done", "hung", "dl_sending" } /\ accessCalls > 0) =>
          session = "closed"

\* a request whose session was opened, whose transfer then failed, and which
\* ended with the session closed
WitC4 ==
    /\ pc = "done"
    /\ session = "closed"
    /\ response.status = 500
    /\ response.message = MsgStor

\* C5: a fileName containing '/' or '\' makes every endpoint that accepts
\* fileName answer 400 and open no remote session.
CexC5 ==
    (req.kind \in { "upload", "direct", "download" } /\ HasPathChars(req.fileName)) =>
       /\ accessCalls = 0
       /\ session = "none"
       /\ pc = "done" => response.status = 400

\* C6: a POST /api/upload request with neither urlFile nor base64File is
\* answered 400 and makes no fetch, no staging write and no remote call.
ThmC6 ==
    (req.kind = "upload" /\ ~Truthy(req.urlFile) /\ ~Truthy(req.base64File)) =>
       /\ fetches = 0
       /\ stagingWrites = 0
       /\ accessCalls = 0
       /\ session = "none"
       /\ ~Staged
       /\ response.status \in { 0, 400 }
       /\ pc \in { "up_start", "done" }
       /\ pc = "done" => response.status = 400

\* a request with path and fileName but no source, answered 400
WitC6 ==
    /\ req.kind = "upload"
    /\ ~Truthy(req.urlFile) /\ ~Truthy(req.base64File)
    /\ Truthy(req.path) /\ Truthy(req.fileName) /\ ~HasPathChars(req.fileName)
    /\ response.status = 400

BothSources ==
    /\ req.kind = "upload"
    /\ Truthy(req.urlFile) /\ Truthy(req.base64File)
    /\ Truthy(req.path) /\ Truthy(req.fileName)

\* C7 as stated: a POST /api/upload request carrying both urlFile and
\* base64File is answered 400 and makes no fetch, staging write or remote call.
CexC7 ==
    BothSources =>
       /\ fetches = 0
       /\ stagingWrites = 0
       /\ accessCalls = 0
       /\ pc = "done" => response.status = 400

\* C7 amended: a request carrying both sources (with path and a fileName
\* free of path characters) is handled as a URL upload and base64File is
\* ignored: a well-formed urlFile is fetched, a malformed one is answered
\* 400 without a fetch, and only fetched bytes are ever staged: the base64
\* payload is neither decoded into the staging file nor reported.
ThmC7 ==
    (BothSources /\ ~HasPathChars(req.fileName) /\ pc # "up_start") =>
       /\ UrlValid(req.urlFile) => fetches = 1
       /\ ~UrlValid(req.urlFile) =>
             /\ fetches = 0 /\ stagingWrites = 0 /\ accessCalls = 0
             /\ response.status = 400
       /\ Staged => \E body \in FetchBodies : \E k \in 0..Len(body) :
                        disk[tempFilePath] = SubSeq(body, 1, k)
       /\ fileInfo.contentType = Null
       /\ response.source # "base64"

\* a request carrying both sources whose URL body has been fetched and staged
WitC7 ==
    /\ BothSources
    /\ fetches = 1
    /\ fetched # NoFetch
    /\ pc = "done"

\* C8: a POST /api/upload request that fails before uploadToFtp is called
\* (validation or acquisition) is answered with a 4xx status and opens no
\* remote session.
CexC8 ==
    (req.kind = "upload" /\ Responded /\ accessCalls = 0) =>
       /\ response.status \in 400..499
       /\ session = "none"

\* C9: once uploadToFtp has returned successfully the response is 200,
\* whatever the deletion of the staging file does; once it has thrown, the
\* response carries the status of that failure.
CexC9 ==
    (req.kind \in { "upload", "direct" } /\ Responded) =>
       /\ ftpResult = "ok" => response.status = 200
       /\ (ftpResult = "error" /\ req.kind = "upload") =>
             response.status = UploadStatusCode(response.message)
       /\ (ftpResult = "error" /\ req.kind = "direct") => response.status = 500

\* C10: a URL upload whose fetch completed proceeds to uploadToFtp, and when
\* the remote endpoint accepted the transfer it is answered 200 with
\* details.size the number of bytes fetched and details.source 'url'.
CexC10 ==
    (req.kind = "upload" /\ fetched # NoFetch /\ pc = "done") =>
       /\ accessCalls = 1
       /\ fileInfo.defined /\ fileInfo.size = Len(fetched)
       /\ ftpResult = "ok" =>
             /\ response.status = 200
             /\ response.size = Len(fetched)
             /\ response.source = "url"

\* C11: a GET /api/download whose fileName is absent from the listing of the
\* entered directory is answered 404 and its byte transfer is never started;
\* a directory that cannot be entered is answered 404 as well.
ThmC11 ==
    [][ req.kind = "download" =>
          /\ pc' = "dl_retr" => req.fileName \in ListNames(cwd)
          /\ (pc = "dl_list" /\ req.fileName \notin ListNames(cwd)
                /\ response'.message # MsgRetr) =>
                /\ pc' = "done"
                /\ response'.status = 404
                /\ response'.message = MsgFileNotFound
                /\ stagingWrites' = 0
                /\ disk' = disk
          /\ (pc = "dl_cd" /\ pc' = "done") =>
                /\ response'.status = 404
                /\ stagingWrites' = 0 ]_vars

\* a download of a name the entered directory does not list, answered 404
WitC11 ==
    /\ req.kind = "download"
    /\ pc = "done"
    /\ response.status = 404
    /\ response.message = MsgFileNotFound
    /\ cwd = CdTarget(<< >>, req.path)
    /\ req.fileName \notin ListNames(cwd)

\* messages of the failures a remote session can report
RemoteFailures ==
    AccessErrors \cup { MsgMkdir, MsgStor, MsgRetr, MsgDirNotFound, MsgFileNotFound }

\* C12: on every endpoint that opens a session a remote-session failure is
\* answered 400 when it is a resolution/timeout failure, 404 when it is a
\* not-found failure and 500 otherwise.
CexC12 ==
    (/\ req.kind \in { "upload", "direct", "download", "list" }
     /\ Responded
     /\ accessCalls > 0
     /\ response.message \in RemoteFailures) =>
       response.status =
          IF Includes(response.message, <<"ENOTFOUND">>)
             \/ Includes(response.message, <<"ETIMEDOUT">>) THEN 400
          ELSE IF Includes(response.message, <<"nao","encontrado">>) THEN 404
          ELSE 500

\* the payload a request has staged is small and carries an HTML marker
SmallHtml(bytes) == Len(bytes) < SizeSmall /\ LooksLikeHtml(bytes)

\* C13: for the URL source and for the base64 source of POST /api/upload, a
\* staged payload under 100 bytes that contains an HTML marker is answered
\* 400, its staging file is removed and no remote session is opened.
CexC13 ==
    (/\ req.kind = "upload"
     /\ ~UploadParamsIncomplete(req) /\ ~HasPathChars(req.fileName)
     /\ pc = "done"
     /\ \/ fetched # NoFetch /\ SmallHtml(fetched)
        \/ /\ SourceKind(req) = "base64"
           /\ stagingWrites = 1
           /\ response.message # MsgWriteError
           /\ SmallHtml(BufferFromBase64(Base64Data(req.base64File)))) =>
       /\ response.status = 400
       /\ ~Staged
       /\ accessCalls = 0

\* C14: the files of a 200 response of GET /api/list are, entry by entry and
\* in the order of the listing the server returned, the entries of the
\* directory, with isDirectory true exactly for directories and size 0 for
\* every directory whatever size the server reported.
CexC14 ==
    [][ (req.kind = "list" /\ pc = "ls_list" /\ response'.status = 200) =>
          \E list \in Listings(cwd) :
             /\ Len(response'.files) = Len(list)
             /\ \A i \in 1..Len(list) :
                   /\ response'.files[i].name = list[i].name
                   /\ response'.files[i].isDirectory = (list[i].type = TypeDirectory)
                   /\ response'.files[i].size =
                         IF list[i].type = TypeDirectory THEN 0 ELSE list[i].size ]_vars

\* C15: a GET /api/download of the (path, fileName) of the last base64
\* upload answered 200, with no remote write since, that ran to a verdict of
\* its own (a completely sent body, or "file not found") answers 200 with
\* exactly the uploaded bytes.
CexC15 ==
    (/\ req.kind = "download" /\ pc = "done"
     /\ roundTrip.valid
     /\ req.path = roundTrip.path /\ req.fileName = roundTrip.fileName
     /\ \/ response.status = 200 /\ Len(response.body) = response.size
        \/ response.message = MsgFileNotFound) =>
       /\ response.status = 200
       /\ response.body = roundTrip.bytes

\* C16: a step of the directory loop whose chain is already on the server
\* (as it is after a first run on the same path) has no error of its own
\* and leaves the remote tree as it was; and after every step that
\* succeeded, ensureDir on the same chain succeeds again without adding a
\* directory.
ThmC16 ==
    [][ pc = "ftp_ensure" =>
          LET currentPath == SubSeq(Dirs(req.path), 1, dirIdx) IN
          /\ Prefixes(currentPath) \subseteq remoteDirs =>
                /\ EnsureDir(remoteDirs, remoteFiles, currentPath).ok
                /\ remoteDirs' = remoteDirs
                /\ remoteFiles' = remoteFiles
          /\ pc' \in { "ftp_ensure", "ftp_upload" } =>
                EnsureDir(remoteDirs', remoteFiles', currentPath) =
                   [ ok |-> TRUE, dirs |-> remoteDirs' ] ]_vars

\* the loop ran again, without error, on the path of an earlier upload
WitC16 ==
    /\ pc = "ftp_upload" /\ served = 2
    /\ roundTrip.valid /\ roundTrip.path = req.path
    /\ Dirs(req.path) # << >>
    /\ Prefixes(Dirs(req.path)) \subseteq remoteDirs

\* text a base64File starts with when it carries the data-URI prefix
HasLeadingDataUri(b) ==
    /\ Len(b) >= Len(DataColon)
    /\ SubSeq(b, 1, Len(DataColon)) = DataColon
    /\ Includes(b, SemiBase64Comma)

\* RFC 4648 decodings of the payloads used
StandardDecoding(text) ==
    CASE text = << "S","G","V","s","b","G","8","=" >> -> << 72, 101, 108, 108, 111 >>
      [] OTHER -> BufferFromBase64(text)

\* C17: when a base64File has been staged for the remote upload, then with a
\* leading 'data:<mime>;base64,' the reported contentType is exactly <mime>
\* and the staged bytes are the decoding of the rest ('data:text/plain;
\* base64,SGVsbG8=' gives text/plain and Hello); without that prefix the
\* contentType is null and the staged bytes are the decoding of the whole
\* string.
CexC17 ==
    (/\ req.kind = "upload" /\ SourceKind(req) = "base64"
     /\ pc = "ftp_access") =>
       LET b == req.base64File
           i == IndexOf(b, SemiBase64Comma)
       IN  IF HasLeadingDataUri(b)
           THEN /\ fileInfo.contentType = SubSeq(b, Len(DataColon) + 1, i - 1)
                /\ disk[tempFilePath] =
                      StandardDecoding(SubSeq(b, i + Len(SemiBase64Comma), Len(b)))
           ELSE /\ fileInfo.contentType = Null
                /\ disk[tempFilePath] = StandardDecoding(b)

\* C18: whatever the value of FTP_TYPE, every client.access call of every
\* endpoint asks for TLS with certificate validation disabled; none asks
\* for a plain session.
CexC18 ==
    access.called => (access.secure /\ ~access.rejectUnauthorized)

\* C19: in a GET /api/download, while the body is being sent the staged file
\* exists and no unlinkSync has been called; the only step that calls
\* unlinkSync or removes the staged file is the one that ends the sending
\* (completed or failed), and it calls unlinkSync exactly once.
ThmC19 ==
    [][ (req.kind = "download" /\ pc \notin { "idle", "done", "hung" }) =>
          /\ pc = "dl_sending" =>
                /\ ExistsSync(disk, tempFilePath)
                /\ unlinks = 0
                /\ pc' \in { "done", "hung" }
                /\ unlinks' = 1
          /\ unlinks' # unlinks => pc = "dl_sending"
          /\ (ExistsSync(disk, tempFilePath) /\ ~ExistsSync(disk', tempFilePath')) =>
                pc = "dl_sending" ]_vars

\* a download whose body was sent in full and whose staged file is gone
WitC19 ==
    /\ req.kind = "download" /\ pc = "done"
    /\ response.status = 200 /\ Len(response.body) = response.size
    /\ ftpResult = "ok"
    /\ unlinks = 1
    /\ ~ExistsSync(disk, tempFilePath)

\* C20: within one request at most one client.access call, one URL fetch and
\* one uploadFrom / downloadTo are started; and the step in which an
\* operation fails, or an error response is produced, starts none of them
\* again and is the step that sends the error response.
ThmC20 ==
    /\ [](accessCalls <= 1 /\ fetches <= 1 /\ transfers <= 1)
    /\ [][ ((ftpResult' = "error" /\ ftpResult # "error")
             \/ (response.status = 0 /\ response'.status >= 400)) =>
              /\ pc' = "done"
              /\ response.status = 0 /\ response'.status >= 400
              /\ accessCalls' = accessCalls
              /\ fetches' = fetches
              /\ transfers' = transfers ]_vars

\* an upload that failed at its one byte transfer, in its one session
WitC20 ==
    /\ req.kind = "upload" /\ pc = "done"
    /\ response.status = 500 /\ response.message = MsgStor
    /\ accessCalls = 1 /\ transfers = 1

\* C24: no step of a GET /api/list or GET /api/download request, answered
\* 200 or with an error, changes the set of remote directories or the
\* remote files and their contents.
ThmC24 ==
    [][ req.kind \in { "list", "download" } =>
          /\ remoteDirs' = remoteDirs
          /\ remoteFiles' = remoteFiles ]_vars

\* a listing of a directory that does not exist was answered 404 and the
\* directory still does not exist
WitC24 ==
    /\ req.kind = "list" /\ pc = "done"
    /\ response.status = 404 /\ accessCalls = 1
    /\ CdTarget(<< >>, req.path) \notin remoteDirs

\* C23: when uploadFrom succeeds, the one remote file that is written is the
\* file named fileName inside the directory chain the loop walked
\* (the segments of path, from the root), and the remotePath of a 200
\* response, read from the login directory, names that same file.
CexC23 ==
    [][ (pc = "ftp_upload" /\ ftpResult' = "ok") =>
          LET stored == Dirs(req.path) \o << FinalFileName(req) >> IN
          /\ stored \in DOMAIN remoteFiles'
          /\ remoteFiles'[stored] = disk[tempFilePath]
          /\ \A q \in DOMAIN remoteFiles' :
                q # stored => (q \in DOMAIN remoteFiles /\ remoteFiles'[q] = remoteFiles[q])
          /\ response'.status = 200 =>
                CdTarget(<< >>, response'.remotePath) = stored ]_vars

\* C22: a received request that has not been answered yet always has a step
\* of its handler to come (an external operation that will complete or fail),
\* so that it ends in a response once those operations settle.
CexC22 == (served > 0 /\ ~Responded) => ENABLED HandlerStep

\* a request that holds a staging path
Staging(i) == tasks[i].pc \in { "write", "read", "cleanup" }

\* C21: requests in flight side by side never have the same staging path, and
\* the file a request reads is the one it wrote: no other request's write or
\* cleanup touched it.
ThmC21 ==
    /\ \A i, j \in Slots :
          (i # j /\ Staging(i) /\ Staging(j)) =>
             PathString(tasks[i].tempFilePath) # PathString(tasks[j].tempFilePath)
    /\ \A i \in Slots :
          tasks[i].pc = "read" =>
             /\ ExistsSync(disk, tasks[i].tempFilePath)
             /\ disk[tasks[i].tempFilePath] = TaskBytes(tasks[i])
    /\ \A i \in Slots :
          (tasks[i].pc = "cleanup" /\ tasks[i].read # << >>) =>
             tasks[i].read = TaskBytes(tasks[i])
WitC21 ==
    \E i, j \in Slots :
       /\ i # j
       /\ tasks[i].pc = "cleanup" /\ tasks[i].read # << >>
       /\ tasks[j].pc = "read"
       /\ tasks[i].kind = "download" /\ tasks[j].kind = "download"
       /\ tasks[i].fileName = tasks[j].fileName

====
